---- MODULE Spec2Model ----
(***************************************************************************)
(* The modular 8086 decoder of emulator-8086 (disassembler.rs, opcodes.rs, *)
(* modrm.rs, reg.rs, operation.rs): the opcode classifier, the ModRM       *)
(* decoder and the operand formatter as operators, and Disassembler's      *)
(* decode loop as a state machine with one step per cursor operation.      *)
(*                                                                         *)
(* Option<T> is a sequence: None is <<>>, Some(x) is <<x>>.                *)
(* A u8 is a number in 0..255, a u16 a number in 0..65535.                 *)
(***************************************************************************)
EXTENDS Integers, Sequences, FiniteSets, TLC

VARIABLES
    buf,         \* Disassembler.instructions_bin: the Vec<u8> inside the Cursor
    pos,         \* Disassembler.instructions_bin: the Cursor's position
    pc,          \* where decode / decode_next_op stands
    opcode_ctx,  \* decode_next_op's local opcode_ctx (Option)
    mod_rm,      \* decode_next_op's local mod_reg_rm / mod_op_rm (Option)
    rm,          \* the Rm returned by parse_mod_reg_rm / parse_mod_rm (Option)
    dest,        \* decode_next_op's local dest (Option)
    decoded,     \* decode's local String
    log,         \* the lines handed to info!
    ops,         \* the statements decode_next_op has returned to decode
    result,      \* what decode has returned to its caller
    pass,        \* which Disassembler of the caller is running (1 or 2)
    first,       \* the result of the caller's first Disassembler
    start,       \* the cursor position at which the running decode_next_op began
    spans        \* the byte range <<from, to>> of each statement in ops

vars == <<buf, pos, pc, opcode_ctx, mod_rm, rm, dest, decoded, log, ops, result, pass, first, start, spans>>

None == <<>>

Some(x) == <<x>>

U8 == 0..255

----------------------------------------------------------------------------
(* reg.rs *)

\* Register::try_from_with_w matching on the value without the mask.
TryFromWithWUnmasked(value, is_word) ==
    CASE value = \b000 -> [ok |-> TRUE, reg |-> IF is_word THEN "AX" ELSE "AL"]
      [] value = \b001 -> [ok |-> TRUE, reg |-> IF is_word THEN "CX" ELSE "CL"]
      [] value = \b010 -> [ok |-> TRUE, reg |-> IF is_word THEN "DX" ELSE "DL"]
      [] value = \b011 -> [ok |-> TRUE, reg |-> IF is_word THEN "BX" ELSE "BL"]
      [] value = \b100 -> [ok |-> TRUE, reg |-> IF is_word THEN "SP" ELSE "AH"]
      [] value = \b101 -> [ok |-> TRUE, reg |-> IF is_word THEN "BP" ELSE "CH"]
      [] value = \b110 -> [ok |-> TRUE, reg |-> IF is_word THEN "SI" ELSE "DH"]
      [] value = \b111 -> [ok |-> TRUE, reg |-> IF is_word THEN "DI" ELSE "BH"]
      [] OTHER -> [ok |-> FALSE, err |-> <<"InvalidRegister">>]

\* Register::try_from_with_w: the 3 LSB of value and the width flag. The
\* ninth arm (InvalidRegister) is the OTHER arm.
try_from_with_w(value, is_word) ==
    LET masked == value % 8
    IN  CASE masked = \b000 -> [ok |-> TRUE, reg |-> IF is_word THEN "AX" ELSE "AL"]
          [] masked = \b001 -> [ok |-> TRUE, reg |-> IF is_word THEN "CX" ELSE "CL"]
          [] masked = \b010 -> [ok |-> TRUE, reg |-> IF is_word THEN "DX" ELSE "DL"]
          [] masked = \b011 -> [ok |-> TRUE, reg |-> IF is_word THEN "BX" ELSE "BL"]
          [] masked = \b100 -> [ok |-> TRUE, reg |-> IF is_word THEN "SP" ELSE "AH"]
          [] masked = \b101 -> [ok |-> TRUE, reg |-> IF is_word THEN "BP" ELSE "CH"]
          [] masked = \b110 -> [ok |-> TRUE, reg |-> IF is_word THEN "SI" ELSE "DH"]
          [] masked = \b111 -> [ok |-> TRUE, reg |-> IF is_word THEN "DI" ELSE "BH"]
          [] OTHER -> [ok |-> FALSE, err |-> <<"InvalidRegister">>]

\* The accumulator taken as AX whatever the width.
AccumulatorAlwaysAx(is_word) == "AX"

\* Register::accumulator_from_w
accumulator_from_w(is_word) == IF is_word THEN "AX" ELSE "AL"

\* impl Display for Register
RegisterToString(r) ==
    CASE r = "AL" -> "al" [] r = "CL" -> "cl" [] r = "DL" -> "dl" [] r = "BL" -> "bl"
      [] r = "AH" -> "ah" [] r = "CH" -> "ch" [] r = "DH" -> "dh" [] r = "BH" -> "bh"
      [] r = "AX" -> "ax" [] r = "CX" -> "cx" [] r = "DX" -> "dx" [] r = "BX" -> "bx"
      [] r = "SP" -> "sp" [] r = "BP" -> "bp" [] r = "SI" -> "si" [] r = "DI" -> "di"

----------------------------------------------------------------------------
(* opcodes.rs *)

\* extract_lsb
extract_lsb(value) == (value % 2) # 0

\* extract_second_lsb
extract_second_lsb(value) == ((value \div 2) % 2) # 0

\* The struct literal of an OpcodeContext (has_data is read by nobody and
\* is left out).
Ctx(value, mnemonic, next_field, d, w, s, reg) ==
    [first_byte_raw |-> value, mnemonic |-> mnemonic, next_field |-> next_field,
     d |-> d, w |-> w, s |-> s, reg |-> reg]

\* jump_ipinc8_op leaving the layout at NextFieldType::None.
JumpIpInc8NoField(mnemonic, value) == Ctx(value, mnemonic, "None", None, None, None, None)

\* jump_ipinc8_op giving the byte 0b01111101 the mnemonic its comment names.
JumpIpInc8Jnl(mnemonic, value) ==
    Ctx(value, IF value = \b01111101 THEN "Jnl" ELSE mnemonic, "IpInc8", None, None, None, None)

\* macro jump_ipinc8_op
jump_ipinc8_op(mnemonic, value) == Ctx(value, mnemonic, "IpInc8", None, None, None, None)

\* The arms of the match in OpcodeContext::try_from, in source order: the
\* byte range of each arm and the context it builds.
Arms ==
    << [lo |-> \b10001000, hi |-> \b10001011, arm |-> "mov_rm_reg"],
       [lo |-> \b11000110, hi |-> \b11000111, arm |-> "mov_imm_rm"],
       [lo |-> \b10110000, hi |-> \b10111111, arm |-> "mov_imm_reg"],
       [lo |-> \b00000000, hi |-> \b00000011, arm |-> "add_rm_reg"],
       [lo |-> \b10000000, hi |-> \b10000011, arm |-> "imm_rm"],
       [lo |-> \b00000100, hi |-> \b00000101, arm |-> "add_imm_acc"],
       [lo |-> \b00101000, hi |-> \b00101011, arm |-> "sub_rm_reg"],
       [lo |-> \b00101100, hi |-> \b00101101, arm |-> "sub_imm_acc"],
       [lo |-> \b00111000, hi |-> \b00111011, arm |-> "cmp_rm_reg"],
       [lo |-> \b00111100, hi |-> \b00111101, arm |-> "cmp_imm_acc"],
       [lo |-> \b01110100, hi |-> \b01110100, arm |-> "Je"],
       [lo |-> \b01111100, hi |-> \b01111100, arm |-> "Jl"],
       [lo |-> \b01111110, hi |-> \b01111110, arm |-> "Jle"],
       [lo |-> \b01110010, hi |-> \b01110010, arm |-> "Jb"],
       [lo |-> \b01110110, hi |-> \b01110110, arm |-> "Jbe"],
       [lo |-> \b01111010, hi |-> \b01111010, arm |-> "Jp"],
       [lo |-> \b01110000, hi |-> \b01110000, arm |-> "Jo"],
       [lo |-> \b01111000, hi |-> \b01111000, arm |-> "Js"],
       [lo |-> \b01110101, hi |-> \b01110101, arm |-> "Jne"],
       [lo |-> \b01111101, hi |-> \b01111101, arm |-> "Jne"],
       [lo |-> \b01111111, hi |-> \b01111111, arm |-> "Jg"],
       [lo |-> \b01110011, hi |-> \b01110011, arm |-> "Jnb"],
       [lo |-> \b01110111, hi |-> \b01110111, arm |-> "Jnbe"],
       [lo |-> \b01111011, hi |-> \b01111011, arm |-> "Jnp"],
       [lo |-> \b01110001, hi |-> \b01110001, arm |-> "Jno"],
       [lo |-> \b01111001, hi |-> \b01111001, arm |-> "Jns"],
       [lo |-> \b11100010, hi |-> \b11100010, arm |-> "Loop"],
       [lo |-> \b11100001, hi |-> \b11100001, arm |-> "Loopz"],
       [lo |-> \b11100000, hi |-> \b11100000, arm |-> "Loopnz"],
       [lo |-> \b11100011, hi |-> \b11100011, arm |-> "Jcxz"] >>

\* The match with every range starting one value early.
MatchingArmsEarly(value) ==
    {i \in DOMAIN Arms : Arms[i].lo - 1 <= value /\ value <= Arms[i].hi}

\* The arms whose pattern matches value.
MatchingArms(value) == {i \in DOMAIN Arms : Arms[i].lo <= value /\ value <= Arms[i].hi}

\* DirectionBit reading bit 0 instead of bit 1.
DirectionBitFromLsb(value) == Some(extract_lsb(value))

\* The d bit as the ModRegRm arms of the mov/add/sub/cmp families set it.
DirectionBit(value) == Some(extract_second_lsb(value))

\* The d field of the "mov immediate to register/memory" arm.
MovImmRmDirection(value) == None

\* MovImmRegW reading bit 0, as the other arms do, instead of bit 3.
MovImmRegWFromLsb(value) == extract_lsb(value)

\* The w field of "mov immediate to register": bit 3 of the opcode.
MovImmRegW(value) == ((value \div 8) % 2) # 0

\* The context the arm named arm builds for the byte value.
BuildArm(arm, value) ==
    CASE arm = "mov_rm_reg" ->
           Ctx(value, "Mov", "ModRegRm", DirectionBit(value), Some(extract_lsb(value)), None, None)
      [] arm = "mov_imm_rm" ->
           Ctx(value, "Mov", "ModRegRm", MovImmRmDirection(value), Some(extract_lsb(value)), None, None)
      [] arm = "mov_imm_reg" ->
           LET w == MovImmRegW(value)
           IN  Ctx(value, "Mov", "Data", None, Some(w), None,
                   Some(try_from_with_w(value, w).reg))
      [] arm = "add_rm_reg" ->
           Ctx(value, "Add", "ModRegRm", DirectionBit(value), Some(extract_lsb(value)), None, None)
      [] arm = "imm_rm" ->
           Ctx(value, "NeedsNextByte", "ModOpcodeContRm", None, Some(extract_lsb(value)),
               Some(extract_second_lsb(value)), None)
      [] arm = "add_imm_acc" ->
           LET w_val == extract_lsb(value)
           IN  Ctx(value, "Add", "Data", None, Some(w_val), None, Some(accumulator_from_w(w_val)))
      [] arm = "sub_rm_reg" ->
           Ctx(value, "Sub", "ModRegRm", DirectionBit(value), Some(extract_lsb(value)), None, None)
      [] arm = "sub_imm_acc" ->
           LET w_val == extract_lsb(value)
           IN  Ctx(value, "Sub", "Data", None, Some(w_val), None, Some(accumulator_from_w(w_val)))
      [] arm = "cmp_rm_reg" ->
           Ctx(value, "Cmp", "ModRegRm", DirectionBit(value), Some(extract_lsb(value)), None, None)
      [] arm = "cmp_imm_acc" ->
           LET w_val == extract_lsb(value)
           IN  Ctx(value, "Cmp", "Data", None, Some(w_val), None, Some(accumulator_from_w(w_val)))
      [] OTHER -> jump_ipinc8_op(arm, value)

\* OpcodeContext::try_from whose error carries the masked opcode bits
\* instead of the byte.
TryFromMaskedByte(value) ==
    LET m == MatchingArms(value)
    IN  IF m = {}
        THEN [ok |-> FALSE, err |-> <<"InvalidOpcode", (value \div 4) * 4>>]
        ELSE LET i == CHOOSE j \in m : \A k \in m : j <= k
                 reg == try_from_with_w(value, MovImmRegW(value))
             IN  IF Arms[i].arm = "mov_imm_reg" /\ ~reg.ok
                 THEN [ok |-> FALSE, err |-> reg.err]
                 ELSE [ok |-> TRUE, ctx |-> BuildArm(Arms[i].arm, value)]

\* OpcodeContext::try_from: the first arm that matches, or InvalidOpcode.
OpcodeContext_try_from(value) ==
    LET m == MatchingArms(value)
    IN  IF m = {}
        THEN [ok |-> FALSE, err |-> <<"InvalidOpcode", value>>]
        ELSE LET i == CHOOSE j \in m : \A k \in m : j <= k
                 reg == try_from_with_w(value, MovImmRegW(value))
             IN  IF Arms[i].arm = "mov_imm_reg" /\ ~reg.ok
                 THEN [ok |-> FALSE, err |-> reg.err]
                 ELSE [ok |-> TRUE, ctx |-> BuildArm(Arms[i].arm, value)]

\* OpcodeMnemonic::with_mod_rm masking the low three bits of the ModRM byte.
WithModRmLowBits(opcode_val, modrm) ==
    LET shifted == modrm % 8
        imm_mov == \b11000110 <= opcode_val /\ opcode_val <= \b11000111
        imm_rm  == \b10000000 <= opcode_val /\ opcode_val <= \b10000011
    IN  CASE shifted = \b000 /\ imm_mov -> [ok |-> TRUE, mnemonic |-> "Mov"]
          [] shifted = \b000 /\ ~imm_mov /\ imm_rm -> [ok |-> TRUE, mnemonic |-> "Add"]
          [] shifted = \b101 /\ imm_rm -> [ok |-> TRUE, mnemonic |-> "Sub"]
          [] shifted = \b111 /\ imm_rm -> [ok |-> TRUE, mnemonic |-> "Cmp"]
          [] OTHER -> [ok |-> FALSE, panic |-> "unsupported vals"]

\* OpcodeMnemonic::with_mod_rm: the mnemonic from bits 5-3 of the ModRM
\* byte, or a panic.
with_mod_rm(opcode_val, modrm) ==
    LET shifted == (modrm \div 8) % 8
        imm_mov == \b11000110 <= opcode_val /\ opcode_val <= \b11000111
        imm_rm  == \b10000000 <= opcode_val /\ opcode_val <= \b10000011
    IN  CASE shifted = \b000 /\ imm_mov -> [ok |-> TRUE, mnemonic |-> "Mov"]
          [] shifted = \b000 /\ ~imm_mov /\ imm_rm -> [ok |-> TRUE, mnemonic |-> "Add"]
          [] shifted = \b101 /\ imm_rm -> [ok |-> TRUE, mnemonic |-> "Sub"]
          [] shifted = \b111 /\ imm_rm -> [ok |-> TRUE, mnemonic |-> "Cmp"]
          [] OTHER -> [ok |-> FALSE, panic |-> "unsupported vals"]

\* impl Display for OpcodeMnemonic (NeedsNextByte is todo!())
MnemonicToString(m) ==
    CASE m = "Mov" -> "mov" [] m = "Add" -> "add" [] m = "Sub" -> "sub" [] m = "Cmp" -> "cmp"
      [] m = "Je" -> "je" [] m = "Jl" -> "jl" [] m = "Jle" -> "jle" [] m = "Jb" -> "jb"
      [] m = "Jbe" -> "jbe" [] m = "Jp" -> "jp" [] m = "Jo" -> "jo" [] m = "Js" -> "js"
      [] m = "Jne" -> "jne" [] m = "Jnl" -> "jnl" [] m = "Jg" -> "jg" [] m = "Jnb" -> "jnb"
      [] m = "Jnbe" -> "jnbe" [] m = "Jnp" -> "jnp" [] m = "Jno" -> "jno" [] m = "Jns" -> "jns"
      [] m = "Loop" -> "loop" [] m = "Loopz" -> "loopz" [] m = "Loopnz" -> "loopnz"
      [] m = "Jcxz" -> "jcxz"

----------------------------------------------------------------------------
(* modrm.rs *)

\* Mode::try_from: the top two bits. The fifth arm (InvalidMode) is the
\* OTHER arm.
Mode_try_from(value) ==
    LET masked == value \div 64
    IN  CASE masked = \b00 -> [ok |-> TRUE, mode |-> [kind |-> "Memory", disp |-> "None"]]
          [] masked = \b01 -> [ok |-> TRUE, mode |-> [kind |-> "Memory", disp |-> "Byte"]]
          [] masked = \b10 -> [ok |-> TRUE, mode |-> [kind |-> "Memory", disp |-> "Word"]]
          [] masked = \b11 -> [ok |-> TRUE, mode |-> [kind |-> "Register"]]
          [] OTHER -> [ok |-> FALSE, err |-> <<"InvalidMode">>]

\* The enum EffectiveAddress: the shape and its registers.
DirectAddress == [shape |-> "DirectAddress", regs |-> <<>>]

SingleReg(r) == [shape |-> "SingleReg", regs |-> <<r>>]

DoubleReg(r1, r2) == [shape |-> "DoubleReg", regs |-> <<r1, r2>>]

\* Rm110 not looking at the displacement length.
Rm110AlwaysBp(displacement) == SingleReg("BP")

\* The arm 0b110 of EffectiveAddress::from_with_mode.
Rm110(displacement) == IF displacement = "None" THEN DirectAddress ELSE SingleReg("BP")

\* EffectiveAddress::from_with_mode, called with a Memory mode only.
from_with_mode(value, mode) ==
    LET displacement == mode.disp
        masked == value % 8
    IN  CASE masked = \b000 -> DoubleReg("BX", "SI")
          [] masked = \b001 -> DoubleReg("BX", "DI")
          [] masked = \b010 -> DoubleReg("BP", "SI")
          [] masked = \b011 -> DoubleReg("BP", "DI")
          [] masked = \b100 -> SingleReg("SI")
          [] masked = \b101 -> SingleReg("DI")
          [] masked = \b110 -> Rm110(displacement)
          [] masked = \b111 -> SingleReg("BX")

\* FixDisp without the direct address case.
FixDispUnchanged(disp, effective_addr) == disp

\* The displacement length parse_mod_rm stores in the Rm: a direct address
\* under mode 00 gets a 16 bit displacement.
FixDisp(disp, effective_addr) ==
    IF disp = "None" /\ effective_addr = DirectAddress THEN "Word" ELSE disp

\* parse_mod_rm taking the register of register mode from bits 5-3.
ParseModRmRegBits(value, is_word) ==
    LET m == Mode_try_from(value)
    IN  IF ~m.ok THEN [ok |-> FALSE, err |-> m.err]
        ELSE IF m.mode.kind = "Memory"
        THEN LET effective_addr == from_with_mode(value, m.mode)
             IN  [ok |-> TRUE, mode |-> m.mode,
                  rm |-> [kind |-> "EffectiveAddressCalculation", ea |-> effective_addr,
                          disp |-> FixDisp(m.mode.disp, effective_addr)]]
        ELSE LET reg == try_from_with_w(value \div 8, is_word)
             IN  IF ~reg.ok THEN [ok |-> FALSE, err |-> reg.err]
                 ELSE [ok |-> TRUE, mode |-> m.mode,
                       rm |-> [kind |-> "Register", reg |-> reg.reg]]

\* parse_mod_rm: (mode, rm).
parse_mod_rm(value, is_word) ==
    LET m == Mode_try_from(value)
    IN  IF ~m.ok THEN [ok |-> FALSE, err |-> m.err]
        ELSE IF m.mode.kind = "Memory"
        THEN LET effective_addr == from_with_mode(value, m.mode)
             IN  [ok |-> TRUE, mode |-> m.mode,
                  rm |-> [kind |-> "EffectiveAddressCalculation", ea |-> effective_addr,
                          disp |-> FixDisp(m.mode.disp, effective_addr)]]
        ELSE LET reg == try_from_with_w(value, is_word)
             IN  IF ~reg.ok THEN [ok |-> FALSE, err |-> reg.err]
                 ELSE [ok |-> TRUE, mode |-> m.mode,
                       rm |-> [kind |-> "Register", reg |-> reg.reg]]

\* The register field of parse_mod_reg_rm: bits 5-3.
RegField(value, is_word) == try_from_with_w(value \div 8, is_word)

\* parse_mod_reg_rm: (mode, register, rm).
parse_mod_reg_rm(value, is_word) ==
    LET register == RegField(value, is_word)
        r == parse_mod_rm(value, is_word)
    IN  IF ~register.ok THEN [ok |-> FALSE, err |-> register.err]
        ELSE IF ~r.ok THEN r
        ELSE [ok |-> TRUE, mode |-> r.mode, register |-> register.reg, rm |-> r.rm]

----------------------------------------------------------------------------
(* Formatting: u8 / u16 / i8 to_string, operation.rs, modrm.rs *)

Digit(d) ==
    CASE d = 0 -> "0" [] d = 1 -> "1" [] d = 2 -> "2" [] d = 3 -> "3" [] d = 4 -> "4"
      [] d = 5 -> "5" [] d = 6 -> "6" [] d = 7 -> "7" [] d = 8 -> "8" [] d = 9 -> "9"

RECURSIVE UnsignedToString(_)
\* u8::to_string and u16::to_string: decimal, no sign, no leading zero.
UnsignedToString(n) ==
    IF n < 10 THEN Digit(n) ELSE UnsignedToString(n \div 10) \o Digit(n % 10)

\* i8::to_string
SignedToString(j) == IF j < 0 THEN "-" \o UnsignedToString(-j) ELSE UnsignedToString(j)

\* The enum DisplacementValue (None carries no value: v is 0 there).
DisplacementValue(len, v) == [len |-> len, v |-> v]

\* impl Display for DisplacementValue
DisplacementToString(disp) ==
    IF disp.len = "None" THEN "0" ELSE UnsignedToString(disp.v)

\* DispTerm rendering the Display of the displacement whatever its length.
DispTermAlways(disp) == " + " \o DisplacementToString(disp)

\* DispTerm deciding by the value: no term for a displacement of 0.
DispTermByValue(disp) ==
    IF disp.len = "None" \/ disp.v = 0 THEN "" ELSE " + " \o UnsignedToString(disp.v)

\* The displacement term of a SingleReg / DoubleReg operand.
DispTerm(disp) ==
    IF disp.len = "None" THEN "" ELSE " + " \o UnsignedToString(disp.v)

\* EffectiveAddress::to_string_with_displacement
to_string_with_displacement(ea, disp) ==
    CASE ea.shape = "DirectAddress" -> "[" \o DisplacementToString(disp) \o "]"
      [] ea.shape = "SingleReg" ->
           "[" \o RegisterToString(ea.regs[1]) \o DispTerm(disp) \o "]"
      [] ea.shape = "DoubleReg" ->
           "[" \o RegisterToString(ea.regs[1]) \o " + " \o RegisterToString(ea.regs[2])
               \o DispTerm(disp) \o "]"

\* The enum Operand.
OperandEffectiveAddress(ea, disp) == [kind |-> "EffectiveAddress", ea |-> ea, disp |-> disp]

OperandRegister(r) == [kind |-> "Register", reg |-> r]

DataByte(v) == [kind |-> "DataByte", v |-> v]

DataWord(v) == [kind |-> "DataWord", v |-> v]

SignedJump(v) == [kind |-> "SignedJump", v |-> v]

\* impl Display for Operand printing a DataByte as a signed byte.
OperandToStringSignedByte(o) ==
    CASE o.kind = "EffectiveAddress" -> to_string_with_displacement(o.ea, o.disp)
      [] o.kind = "Register" -> RegisterToString(o.reg)
      [] o.kind = "DataByte" -> SignedToString(IF o.v >= 128 THEN o.v - 256 ELSE o.v)
      [] o.kind = "DataWord" -> UnsignedToString(o.v)
      [] o.kind = "SignedJump" -> SignedToString(o.v)

\* impl Display for Operand
OperandToString(o) ==
    CASE o.kind = "EffectiveAddress" -> to_string_with_displacement(o.ea, o.disp)
      [] o.kind = "Register" -> RegisterToString(o.reg)
      [] o.kind = "DataByte" -> UnsignedToString(o.v)
      [] o.kind = "DataWord" -> UnsignedToString(o.v)
      [] o.kind = "SignedJump" -> SignedToString(o.v)

\* Operation::new
Operation(opcode, d, s) == [opcode |-> opcode, dest |-> d, src |-> s]

\* impl Display for Operation pushing the separator before looking at src.
OperationToStringSeparatorFirst(op) ==
    MnemonicToString(op.opcode) \o " " \o OperandToString(op.dest) \o ", "
        \o (IF op.src # None THEN OperandToString(op.src[1]) ELSE "")

\* impl Display for Operation
OperationToString(op) ==
    MnemonicToString(op.opcode) \o " " \o OperandToString(op.dest)
        \o (IF op.src # None THEN ", " \o OperandToString(op.src[1]) ELSE "")

----------------------------------------------------------------------------
(* disassembler.rs: the cursor *)

\* Cursor::read of one byte, as read_next uses it: the byte and the new
\* position, or None and the position unmoved at the end of the buffer.
read_next(b, p) ==
    IF p < Len(b) THEN [val |-> Some(b[p + 1]), pos |-> p + 1]
    ELSE [val |-> None, pos |-> p]

\* read_expecting taking the zeroed read buffer for a byte at the end of
\* the stream instead of panicking.
ReadExpectingZero(b, p) ==
    LET r == read_next(b, p)
    IN  [ok |-> TRUE, val |-> IF r.val = None THEN 0 ELSE r.val[1], pos |-> r.pos]

\* read_expecting returning the byte without moving the cursor.
ReadExpectingInPlace(b, p) ==
    LET r == read_next(b, p)
    IN  IF r.val = None
        THEN [ok |-> FALSE, pos |-> r.pos, panic |-> "Failed to read next byte!"]
        ELSE [ok |-> TRUE, val |-> r.val[1], pos |-> p]

\* Disassembler::read_expecting: expect() panics on None.
read_expecting(b, p) ==
    LET r == read_next(b, p)
    IN  IF r.val = None
        THEN [ok |-> FALSE, pos |-> r.pos, panic |-> "Failed to read next byte!"]
        ELSE [ok |-> TRUE, val |-> r.val[1], pos |-> r.pos]

\* low + high of read_word, high already shifted left by 8.
WordOf(low, high_byte) == low + high_byte * 256

\* read_word taking a missing high byte as zero.
ReadWordShort(b, p) ==
    LET low == read_expecting(b, p)
    IN  IF ~low.ok THEN low
        ELSE LET high == read_expecting(b, low.pos)
             IN  IF ~high.ok THEN [ok |-> TRUE, val |-> low.val, pos |-> low.pos]
                 ELSE [ok |-> TRUE, val |-> WordOf(low.val, high.val), pos |-> high.pos]

\* Disassembler::read_word
read_word(b, p) ==
    LET low == read_expecting(b, p)
    IN  IF ~low.ok THEN low
        ELSE LET high == read_expecting(b, low.pos)
             IN  IF ~high.ok THEN high
                 ELSE [ok |-> TRUE, val |-> WordOf(low.val, high.val), pos |-> high.pos]

\* Disassembler::read_displacement
read_displacement(b, p, disp) ==
    CASE disp = "None" -> [ok |-> TRUE, val |-> DisplacementValue("None", 0), pos |-> p]
      [] disp = "Byte" ->
           LET r == read_expecting(b, p)
           IN  IF ~r.ok THEN r
               ELSE [ok |-> TRUE, val |-> DisplacementValue("Byte", r.val), pos |-> r.pos]
      [] disp = "Word" ->
           LET r == read_word(b, p)
           IN  IF ~r.ok THEN r
               ELSE [ok |-> TRUE, val |-> DisplacementValue("Word", r.val), pos |-> r.pos]

\* seek_relative leaving the cursor where it is.
SeekNowhere(p, offset) == p

\* Cursor::seek_relative
seek_relative(p, offset) == p + offset

\* peek without the seek back: the byte is consumed.
PeekConsuming(b, p) ==
    LET r == read_expecting(b, p)
    IN  IF ~r.ok THEN r
        ELSE [ok |-> TRUE, val |-> r.val, pos |-> r.pos]

\* Disassembler::peek
peek(b, p) ==
    LET r == read_expecting(b, p)
    IN  IF ~r.ok THEN r
        ELSE [ok |-> TRUE, val |-> r.val, pos |-> seek_relative(r.pos, -1)]

\* rm_to_operand reading the displacement one byte further on, behind a
\* byte left for the immediate.
RmToOperandBehindImmediate(b, p, r) ==
    IF r.kind = "EffectiveAddressCalculation"
    THEN LET disp_val == read_displacement(b, IF r.disp = "None" THEN p ELSE p + 1, r.disp)
         IN  IF ~disp_val.ok THEN disp_val
             ELSE [ok |-> TRUE, val |-> OperandEffectiveAddress(r.ea, disp_val.val),
                   pos |-> disp_val.pos]
    ELSE [ok |-> TRUE, val |-> OperandRegister(r.reg), pos |-> p]

\* Disassembler::rm_to_operand
rm_to_operand(b, p, r) ==
    IF r.kind = "EffectiveAddressCalculation"
    THEN LET disp_val == read_displacement(b, p, r.disp)
         IN  IF ~disp_val.ok THEN disp_val
             ELSE [ok |-> TRUE, val |-> OperandEffectiveAddress(r.ea, disp_val.val),
                   pos |-> disp_val.pos]
    ELSE [ok |-> TRUE, val |-> OperandRegister(r.reg), pos |-> p]

\* The byte kept unsigned.
AsUnsigned(v) == v

\* `as i8` of a u8
AsI8(v) == IF v >= 128 THEN v - 256 ELSE v

----------------------------------------------------------------------------
(* disassembler.rs: decode and decode_next_op *)

Running == [kind |-> "Running"]

\* Ok(decoded)
OkResult(text) == [kind |-> "Ok", text |-> text]

\* Err(e), as the ? operator hands it to decode's caller
ErrResult(err) == [kind |-> "Err", err |-> err]

\* A panic unwinding through decode
PanicResult(msg) == [kind |-> "Panic", msg |-> msg]

\* String::from_str("bits 16\n") of decode
Header == "bits 16\n"

\* The loop body of decode ending each statement with the newline.
PushStatementLineEnd(text, statement_str) == (text \o statement_str) \o "\n"

\* The loop body of decode: push('\n') and push_str(statement_str).
PushStatement(text, statement_str) == (text \o "\n") \o statement_str

\* ImmediateIsWord going off the w bit whatever s is.
ImmediateIsWordByW(ctx) == ctx.w[1]

\* Whether the immediate of the ModOpcodeContRm layout is a word: with an
\* s field, when !s && w; without one, when w.
ImmediateIsWord(ctx) ==
    IF ctx.s # None THEN (~ctx.s[1]) /\ ctx.w[1] ELSE ctx.w[1]

\* The immediate read of the ModOpcodeContRm and Data layouts: read_word
\* into a DataWord, or read_expecting into a DataByte.
read_data(b, p, is_word) ==
    IF is_word
    THEN LET r == read_word(b, p)
         IN  IF ~r.ok THEN r ELSE [ok |-> TRUE, val |-> DataWord(r.val), pos |-> r.pos]
    ELSE LET r == read_expecting(b, p)
         IN  IF ~r.ok THEN r ELSE [ok |-> TRUE, val |-> DataByte(r.val), pos |-> r.pos]

\* ModRegRmOperands without the swap.
ModRegRmOperandsNoSwap(d, rm_operand, reg_operand) ==
    [dest |-> rm_operand, src |-> reg_operand]

\* The operands of the ModRegRm layout: dest is the R/M operand and src the
\* register, swapped when d is set.
ModRegRmOperands(d, rm_operand, reg_operand) ==
    IF d THEN [dest |-> reg_operand, src |-> rm_operand]
    ELSE [dest |-> rm_operand, src |-> reg_operand]

\* decode stops: it returns Ok or Err, or a panic unwinds through it.
Stop(r, p) ==
    /\ result' = r
    /\ pc' = "done"
    /\ pos' = p
    /\ UNCHANGED <<buf, opcode_ctx, mod_rm, rm, dest, decoded, log, ops, pass, first, start, spans>>

\* Return without the info! line.
ReturnWithoutInfo(statement, p) ==
    /\ pos' = p
    /\ ops' = Append(ops, statement)
    /\ decoded' = PushStatement(decoded, OperationToString(statement))
    /\ log' = log
    /\ pc' = "read_opcode"
    /\ opcode_ctx' = None
    /\ mod_rm' = None
    /\ rm' = None
    /\ dest' = None
    /\ spans' = Append(spans, <<start, p>>)
    /\ UNCHANGED <<buf, result, pass, first, start>>

\* decode_next_op returns Ok(Some(statement)) and decode's loop body runs.
Return(statement, p) ==
    /\ pos' = p
    /\ ops' = Append(ops, statement)
    /\ decoded' = PushStatement(decoded, OperationToString(statement))
    /\ log' = Append(log, OperationToString(statement))
    /\ pc' = "read_opcode"
    /\ opcode_ctx' = None
    /\ mod_rm' = None
    /\ rm' = None
    /\ dest' = None
    /\ spans' = Append(spans, <<start, p>>)
    /\ UNCHANGED <<buf, result, pass, first, start>>

\* decode_next_op: read_next and OpcodeContext::try_from.
ReadOpcode ==
    /\ pc = "read_opcode"
    /\ LET r == read_next(buf, pos)
       IN  IF r.val = None
           THEN Stop(OkResult(decoded), r.pos)
           ELSE LET c == OpcodeContext_try_from(r.val[1])
                IN  IF ~c.ok
                    THEN Stop(ErrResult(c.err), r.pos)
                    ELSE /\ pos' = r.pos
                         /\ start' = pos
                         /\ opcode_ctx' = Some(c.ctx)
                         /\ pc' = IF c.ctx.mnemonic = "NeedsNextByte" THEN "peek" ELSE "next_field"
                         /\ UNCHANGED <<buf, mod_rm, rm, dest, decoded, log, ops, result, pass, first, spans>>

\* decode_next_op: peek and with_next_byte, when the mnemonic is NeedsNextByte.
PeekNext ==
    /\ pc = "peek"
    /\ LET r == peek(buf, pos)
       IN  IF ~r.ok
           THEN Stop(PanicResult(r.panic), r.pos)
           ELSE LET m == with_mod_rm(opcode_ctx[1].first_byte_raw, r.val)
                IN  IF ~m.ok
                    THEN Stop(PanicResult(m.panic), r.pos)
                    ELSE /\ pos' = r.pos
                         /\ opcode_ctx' = Some([opcode_ctx[1] EXCEPT !.mnemonic = m.mnemonic])
                         /\ pc' = "next_field"
                         /\ UNCHANGED <<buf, mod_rm, rm, dest, decoded, log, ops, result, pass, first, start, spans>>

\* NextFieldType::ModRegRm: read_expecting, w().expect, parse_mod_reg_rm.
ReadModRegRm ==
    /\ pc = "next_field"
    /\ opcode_ctx[1].next_field = "ModRegRm"
    /\ LET r == read_expecting(buf, pos)
       IN  IF ~r.ok
           THEN Stop(PanicResult(r.panic), r.pos)
           ELSE IF opcode_ctx[1].w = None
           THEN Stop(PanicResult("W bit not found!"), r.pos)
           ELSE LET parsed == parse_mod_reg_rm(r.val, opcode_ctx[1].w[1])
                IN  IF ~parsed.ok
                    THEN Stop(ErrResult(parsed.err), r.pos)
                    ELSE /\ pos' = r.pos
                         /\ mod_rm' = Some(r.val)
                         /\ rm' = Some(parsed.rm)
                         /\ pc' = "rm_to_operand"
                         /\ UNCHANGED <<buf, opcode_ctx, dest, decoded, log, ops, result, pass, first, start, spans>>

\* NextFieldType::ModOpcodeContRm: read_expecting, w().expect, parse_mod_rm.
ReadModOpcodeContRm ==
    /\ pc = "next_field"
    /\ opcode_ctx[1].next_field = "ModOpcodeContRm"
    /\ LET r == read_expecting(buf, pos)
       IN  IF ~r.ok
           THEN Stop(PanicResult(r.panic), r.pos)
           ELSE IF opcode_ctx[1].w = None
           THEN Stop(PanicResult("W bit not found!"), r.pos)
           ELSE LET parsed == parse_mod_rm(r.val, opcode_ctx[1].w[1])
                IN  IF ~parsed.ok
                    THEN Stop(ErrResult(parsed.err), r.pos)
                    ELSE /\ pos' = r.pos
                         /\ mod_rm' = Some(r.val)
                         /\ rm' = Some(parsed.rm)
                         /\ pc' = "rm_to_operand"
                         /\ UNCHANGED <<buf, opcode_ctx, dest, decoded, log, ops, result, pass, first, start, spans>>

\* self.rm_to_operand(rm) of the two ModRM layouts.
RmToOperand ==
    /\ pc = "rm_to_operand"
    /\ LET r == rm_to_operand(buf, pos, rm[1])
       IN  IF ~r.ok
           THEN Stop(PanicResult(r.panic), r.pos)
           ELSE /\ pos' = r.pos
                /\ dest' = Some(r.val)
                /\ pc' = IF opcode_ctx[1].next_field = "ModRegRm" THEN "assemble" ELSE "read_data"
                /\ UNCHANGED <<buf, opcode_ctx, mod_rm, rm, decoded, log, ops, result, pass, first, start, spans>>

\* NextFieldType::ModRegRm: d().expect, the swap and Operation::new. The
\* register of the src operand is the one parse_mod_reg_rm returned.
AssembleModRegRm ==
    /\ pc = "assemble"
    /\ IF opcode_ctx[1].d = None
       THEN Stop(PanicResult("Need direction set!"), pos)
       ELSE LET reg == RegField(mod_rm[1], opcode_ctx[1].w[1]).reg
                o == ModRegRmOperands(opcode_ctx[1].d[1], dest[1], OperandRegister(reg))
            IN  Return(Operation(opcode_ctx[1].mnemonic, o.dest, Some(o.src)), pos)

\* NextFieldType::ModOpcodeContRm: the immediate and Operation::new.
ReadImmediate ==
    /\ pc = "read_data"
    /\ LET r == read_data(buf, pos, ImmediateIsWord(opcode_ctx[1]))
       IN  IF ~r.ok
           THEN Stop(PanicResult(r.panic), r.pos)
           ELSE Return(Operation(opcode_ctx[1].mnemonic, dest[1], Some(r.val)), r.pos)

\* NextFieldType::Data: reg().expect, w().expect, the immediate.
DecodeData ==
    /\ pc = "next_field"
    /\ opcode_ctx[1].next_field = "Data"
    /\ IF opcode_ctx[1].reg = None
       THEN Stop(PanicResult("Expected reg!"), pos)
       ELSE IF opcode_ctx[1].w = None
       THEN Stop(PanicResult("Expected w!"), pos)
       ELSE LET r == read_data(buf, pos, opcode_ctx[1].w[1])
            IN  IF ~r.ok
                THEN Stop(PanicResult(r.panic), r.pos)
                ELSE Return(Operation(opcode_ctx[1].mnemonic,
                                      OperandRegister(opcode_ctx[1].reg[1]), Some(r.val)), r.pos)

\* NextFieldType::IpInc8: one byte as i8, no source operand.
DecodeIpInc8 ==
    /\ pc = "next_field"
    /\ opcode_ctx[1].next_field = "IpInc8"
    /\ LET r == read_expecting(buf, pos)
       IN  IF ~r.ok
           THEN Stop(PanicResult(r.panic), r.pos)
           ELSE Return(Operation(opcode_ctx[1].mnemonic, SignedJump(AsI8(r.val)), None), r.pos)

\* A second decode on the cursor the first one has consumed.
NewDisassemblerUsedCursor(instructions) ==
    [instructions_bin |-> instructions, position |-> pos]

\* Disassembler::new: a cursor at position 0 over a copy of the bytes.
NewDisassembler(instructions) == [instructions_bin |-> instructions, position |-> 0]

\* The caller builds a second Disassembler from the same bytes and decodes
\* again.
DecodeAgain ==
    /\ pc = "done"
    /\ pass = 1
    /\ LET d == NewDisassembler(buf)
       IN  /\ buf' = d.instructions_bin
           /\ pos' = d.position
    /\ first' = result
    /\ pass' = 2
    /\ result' = Running
    /\ pc' = "read_opcode"
    /\ decoded' = Header
    /\ log' = <<>>
    /\ ops' = <<>>
    /\ start' = 0
    /\ spans' = <<>>
    /\ opcode_ctx' = None
    /\ mod_rm' = None
    /\ rm' = None
    /\ dest' = None

----------------------------------------------------------------------------
(* The buffers decoded *)

\* Longest buffer over Alphabet.
MaxLen == 4

\* Longest tail after an opcode byte and a second byte.
MaxTail == 4

\* Bytes of the short buffers: each is an opcode in one position and a
\* ModRM byte, a displacement or an immediate in another.
Alphabet == {\h00, \h04, \h05, \h40, \h83, \h89, \hB8, \hD9}

\* The bytes after the first two of a long buffer.
TailBytes == <<\h34, \h12, \hFF, \h80, \h00, \h7F>>

TailOf(n) == [i \in 1..n |-> TailBytes[((i - 1) % Len(TailBytes)) + 1]]

RECURSIVE SeqsOf(_, _)
\* The sequences over S of length n.
SeqsOf(S, n) ==
    IF n = 0 THEN {<<>>}
    ELSE {Append(q, x) : q \in SeqsOf(S, n - 1), x \in S}

\* The opcode bytes the classifier accepts.
Accepted == {b \in U8 : OpcodeContext_try_from(b).ok}

\* Second bytes of the buffers cut short: every mode, three values of
\* bits 5-3 and four of the R/M bits.
SecondBytes == {m * 64 + r * 8 + x : m \in 0..3, r \in {0, 5, 7}, x \in {0, 1, 6, 7}}

\* buf is one of the buffers decoded: a short buffer over Alphabet, a
\* single byte, an accepted opcode byte with any second byte and a full
\* tail, or one with a sampled second byte and a tail cut short.
IsInput(b) ==
    \/ \E n \in 0..MaxLen : b \in SeqsOf(Alphabet, n)
    \/ \E a \in U8 : b = <<a>>
    \/ \E a \in Accepted, c \in U8 : b = <<a, c>> \o TailOf(MaxTail)
    \/ \E a \in Accepted, c \in SecondBytes, n \in 0..(MaxTail - 1) : b = <<a, c>> \o TailOf(n)

Init ==
    /\ IsInput(buf)
    /\ pos = 0
    /\ pc = "read_opcode"
    /\ opcode_ctx = None
    /\ mod_rm = None
    /\ rm = None
    /\ dest = None
    /\ decoded = Header
    /\ log = <<>>
    /\ ops = <<>>
    /\ result = Running
    /\ pass = 1
    /\ first = Running
    /\ start = 0
    /\ spans = <<>>

Next ==
    \/ ReadOpcode
    \/ PeekNext
    \/ ReadModRegRm
    \/ ReadModOpcodeContRm
    \/ RmToOperand
    \/ AssembleModRegRm
    \/ ReadImmediate
    \/ DecodeData
    \/ DecodeIpInc8

Spec == Init /\ [][Next]_vars

NextTwice == Next \/ DecodeAgain

SpecTwice == Init /\ [][NextTwice]_vars

----------------------------------------------------------------------------
(* Properties *)

\* The statement decode_next_op returns in this step.
Returned == ops'[Len(ops')]

\* decode_next_op returns a statement in this step.
Returns == Len(ops') = Len(ops) + 1

\* The little-endian 16 bit value of the two bytes after position p.
WordAt(p) == buf[p + 1] + 256 * buf[p + 2]

\* The register a 3 bit field selects under the width flag w.
RegisterTable(field, w) ==
    IF w THEN <<"AX", "CX", "DX", "BX", "SP", "BP", "SI", "DI">>[field + 1]
    ELSE <<"AL", "CL", "DL", "BL", "AH", "CH", "DH", "BH">>[field + 1]

\* C1: under the ModRegRm layout, for every ModRM byte, the statement
\* returned has two operands, the register of ModRM bits 5-3 (with the
\* opcode's width flag) and the operand resolved from the R/M field; the
\* register is the destination when d is 1 and the source when d is 0. The
\* bytes 0b10001001, 0b11011001 decode to the one statement Mov CX, BX,
\* whose text is "mov cx, bx".
C1_ModRegRmOperands ==
    [][/\ (pc = "assemble" /\ Returns) =>
            LET ctx == opcode_ctx[1]
                w == ctx.w[1]
                regop == OperandRegister(RegisterTable((mod_rm[1] \div 8) % 8, w))
                rmop == dest[1]
            IN  /\ Returned.opcode = ctx.mnemonic
                /\ Len(Returned.src) = 1
                /\ (mod_rm[1] \div 64 = 3) =>
                       rmop = OperandRegister(RegisterTable(mod_rm[1] % 8, w))
                /\ (mod_rm[1] \div 64 # 3) => rmop.kind = "EffectiveAddress"
                /\ ctx.d[1] => (Returned.dest = regop /\ Returned.src[1] = rmop)
                /\ (~ctx.d[1]) => (Returned.dest = rmop /\ Returned.src[1] = regop)
       /\ (buf = <<\b10001001, \b11011001>> /\ pc' = "done") =>
            /\ ops' = <<Operation("Mov", OperandRegister("CX"), Some(OperandRegister("BX")))>>
            /\ log' = <<"mov cx, bx">>
      ]_vars

\* C1, reached: 0b10001001, 0b11011001 has been decoded to "mov cx, bx".
C1_Witness ==
    /\ buf = <<\b10001001, \b11011001>>
    /\ pc = "done"
    /\ log = <<"mov cx, bx">>

\* C2: every byte b with (b & 0b11111100) = 0b10001000 is classified as
\* Mov with the ModRegRm layout, d = Some(bit 1 of b) and w = Some(bit 0 of b).
C2_MovRegMemClassified ==
    [][(pc = "read_opcode" /\ pos < Len(buf) /\ (buf[pos + 1] \div 4) * 4 = \b10001000) =>
            LET b == buf[pos + 1]
            IN  /\ result' = Running
                /\ opcode_ctx' # None
                /\ opcode_ctx'[1].mnemonic = "Mov"
                /\ opcode_ctx'[1].next_field = "ModRegRm"
                /\ opcode_ctx'[1].d = <<(b \div 2) % 2 = 1>>
                /\ opcode_ctx'[1].w = <<b % 2 = 1>>
      ]_vars

\* C2, reached: 0b10001010 (d = 1, w = 0) has been classified.
C2_Witness ==
    /\ opcode_ctx # None
    /\ opcode_ctx[1].first_byte_raw = \b10001010
    /\ opcode_ctx[1].d = <<TRUE>>
    /\ opcode_ctx[1].w = <<FALSE>>

\* C3: for an opcode b in 0b10110000..0b10111111 the immediate starts right
\* after the opcode byte (no ModRM byte); the destination is the register
\* of the low 3 bits of b under w = bit 3 of b; the source is a 1 byte
\* immediate when w = 0 and a 2 byte little-endian immediate when w = 1.
\* The bytes 0b10111000, 0x05, 0x00 decode to "mov ax, 5".
C3_MovImmediateToRegister ==
    [][/\ (/\ pc = "next_field"
           /\ opcode_ctx[1].first_byte_raw \in \b10110000..\b10111111
           /\ Returns) =>
            LET b == opcode_ctx[1].first_byte_raw
                w == (b \div 8) % 2 = 1
            IN  /\ buf[pos] = b
                /\ Returned.opcode = "Mov"
                /\ Returned.dest = OperandRegister(RegisterTable(b % 8, w))
                /\ (~w) => (Returned.src = <<DataByte(buf[pos + 1])>> /\ pos' = pos + 1)
                /\ w => (Returned.src = <<DataWord(WordAt(pos))>> /\ pos' = pos + 2)
       /\ (buf = <<\b10111000, \h05, \h00>> /\ pc' = "done") =>
            /\ log' = <<"mov ax, 5">>
            /\ result' = OkResult("bits 16\n\nmov ax, 5")
      ]_vars

\* C3, reached: a 2 byte immediate with distinct low and high bytes has
\* been read into a 16 bit register.
C3_Witness ==
    /\ Len(ops) = 1
    /\ buf[1] = \b10111011
    /\ ops[1] = Operation("Mov", OperandRegister("BX"), Some(DataWord(\h3412)))

\* C4: a ModRM byte with mode 00 and R/M 110 makes the decoder consume
\* exactly the 2 bytes after the ModRM byte as a little-endian 16 bit
\* displacement (and panic when fewer remain, never go on with none), and
\* the operand renders as "[<value in decimal>]".
C4_DirectAddress ==
    [][(pc = "rm_to_operand" /\ mod_rm[1] \div 64 = 0 /\ mod_rm[1] % 8 = 6) =>
            /\ buf[pos] = mod_rm[1]
            /\ IF Len(buf) - pos >= 2
               THEN /\ pos' = pos + 2
                    /\ dest' = <<OperandEffectiveAddress(DirectAddress,
                                     DisplacementValue("Word", WordAt(pos)))>>
                    /\ OperandToString(dest'[1]) = ("[" \o ToString(WordAt(pos))) \o "]"
               ELSE /\ result'.kind = "Panic"
                    /\ dest' = dest
      ]_vars

\* C4, reached: a direct address operand with the value 0x1234 is held.
C4_Witness ==
    /\ dest # None
    /\ dest[1].kind = "EffectiveAddress"
    /\ dest[1].ea = DirectAddress
    /\ dest[1].disp = DisplacementValue("Word", 4660)
    /\ OperandToString(dest[1]) = "[4660]"

\* The text of the base registers of an effective address.
BaseText(ea) ==
    IF ea.shape = "SingleReg" THEN RegisterToString(ea.regs[1])
    ELSE (RegisterToString(ea.regs[1]) \o " + ") \o RegisterToString(ea.regs[2])

\* C5: a ModRM byte with mode 01 makes the decoder consume exactly one
\* displacement byte d, and the operand renders as "[<reg> + <d>]" or
\* "[<regA> + <regB> + <d>]"; R/M 000 with d = 4 renders as "[bx + si + 4]".
C5_ByteDisplacement ==
    [][(pc = "rm_to_operand" /\ mod_rm[1] \div 64 = 1 /\ pos < Len(buf)) =>
            LET d == buf[pos + 1]
            IN  /\ buf[pos] = mod_rm[1]
                /\ pos' = pos + 1
                /\ dest' # None
                /\ dest'[1].kind = "EffectiveAddress"
                /\ dest'[1].ea.shape \in {"SingleReg", "DoubleReg"}
                /\ dest'[1].disp = DisplacementValue("Byte", d)
                /\ OperandToString(dest'[1])
                       = ((("[" \o BaseText(dest'[1].ea)) \o " + ") \o ToString(d)) \o "]"
                /\ (mod_rm[1] % 8 = 0 /\ d = 4) => OperandToString(dest'[1]) = "[bx + si + 4]"
      ]_vars

\* C5, reached: the operand [bx + si + 4] is held.
C5_Witness ==
    /\ dest # None
    /\ dest[1].kind = "EffectiveAddress"
    /\ mod_rm[1] \div 64 = 1
    /\ OperandToString(dest[1]) = "[bx + si + 4]"

\* The bytes the step at pc needs from the cursor, from the opcode byte
\* and the ModRM byte.
Needed ==
    CASE pc = "peek" -> 1
      [] pc = "next_field" /\ opcode_ctx[1].next_field = "Data" ->
           IF opcode_ctx[1].first_byte_raw \div 16 = \b1011
           THEN (IF (opcode_ctx[1].first_byte_raw \div 8) % 2 = 1 THEN 2 ELSE 1)
           ELSE (IF opcode_ctx[1].first_byte_raw % 2 = 1 THEN 2 ELSE 1)
      [] pc = "next_field" /\ opcode_ctx[1].next_field # "Data" -> 1
      [] pc = "rm_to_operand" ->
           LET mode == mod_rm[1] \div 64
           IN  CASE mode = 1 -> 1
                 [] mode = 2 -> 2
                 [] mode = 0 /\ mod_rm[1] % 8 = 6 -> 2
                 [] OTHER -> 0
      [] pc = "read_data" ->
           LET b == opcode_ctx[1].first_byte_raw
           IN  IF b % 2 = 1 /\ (b \div 2) % 2 = 0 THEN 2 ELSE 1
      [] OTHER -> 0

\* The buffer ends before the bytes the step at pc needs.
Truncated == Len(buf) - pos < Needed

\* C6 as claimed: when the buffer ends before the bytes an instruction
\* needs, decode returns the typed error TruncatedInstruction, and no
\* statement or line is produced for the instruction.
C6_TruncationIsTypedError ==
    [][Truncated =>
            /\ result'.kind = "Err"
            /\ result'.err = <<"TruncatedInstruction">>
            /\ ops' = ops
            /\ log' = log
      ]_vars

\* C6, amended: when the buffer ends before the bytes an instruction needs,
\* the decode pass ends in the panic of read_expecting ("Failed to read
\* next byte!"), no error value is returned, and no statement or line is
\* produced for the instruction.
C6_TruncationPanics ==
    [][Truncated =>
            /\ result' = PanicResult("Failed to read next byte!")
            /\ pc' = "done"
            /\ ops' = ops
            /\ log' = log
            /\ decoded' = decoded
      ]_vars

\* C6, reached: the second instruction of a buffer was cut short.
C6_Witness ==
    /\ pc = "done"
    /\ result = PanicResult("Failed to read next byte!")
    /\ Len(ops) = 1
    /\ Len(log) = 1
    /\ pos = Len(buf)

\* The texts of the statements returned so far.
StatementLines == [i \in 1..Len(ops) |-> OperationToString(ops[i])]

RECURSIVE TextOf(_)
\* The header followed by the lines.
TextOf(lines) ==
    IF lines = <<>> THEN "bits 16\n"
    ELSE (TextOf(SubSeq(lines, 1, Len(lines) - 1)) \o "\n") \o lines[Len(lines)]

\* The text the caller of decode holds: Some(text) of Ok(text), None of an
\* Err or a panic.
ReturnedText == IF result.kind = "Ok" THEN <<result.text>> ELSE <<>>

\* C7 as claimed: when decode fails at the k-th instruction, the lines of
\* the k-1 instructions before it are available to the caller of decode.
C7_PartialOutputReturned ==
    (pc = "done" /\ result.kind # "Ok" /\ ops # <<>>) =>
        ReturnedText = <<TextOf(StatementLines)>>

\* C7, amended: when decode fails at the k-th instruction, its caller gets
\* the error or the panic and no text; the lines of the k-1 instructions
\* before it have gone, in order, to the info! log and nowhere else, and
\* the failing step produces no line.
C7_PartialOutputOnlyLogged ==
    [][(pc # "done" /\ pc' = "done" /\ result'.kind # "Ok") =>
            /\ result'.kind \in {"Err", "Panic"}
            /\ ReturnedText' = <<>>
            /\ ops' = ops
            /\ log' = log
            /\ log' = StatementLines'
      ]_vars

\* C7, reached: decode failed at the second instruction of a buffer with
\* an invalid opcode, one line logged.
C7_Witness ==
    /\ pc = "done"
    /\ result.kind = "Err"
    /\ Len(ops) = 1
    /\ log = StatementLines
    /\ ReturnedText = <<>>

\* Two results of decode are the same outcome.
SameOutcome(r1, r2) ==
    /\ r1.kind = r2.kind
    /\ r1.kind = "Ok" => r1.text = r2.text
    /\ r1.kind = "Err" => r1.err = r2.err
    /\ r1.kind = "Panic" => r1.msg = r2.msg

C9_ForwardOnly ==
    [][/\ pos' >= pos
       /\ pc = "read_opcode" => pos' = (IF pos < Len(buf) THEN pos + 1 ELSE pos)
       /\ read_next(buf, pos).pos = (IF pos < Len(buf) THEN pos + 1 ELSE pos)
       /\ read_expecting(buf, pos).pos >= pos
       /\ read_word(buf, pos).pos >= pos
       /\ \A d \in {"None", "Byte", "Word"} : read_displacement(buf, pos, d).pos >= pos
       /\ (pc = "peek" /\ pos < Len(buf)) =>
            /\ peek(buf, pos).ok
            /\ peek(buf, pos).val = buf[pos + 1]
            /\ peek(buf, pos).pos = pos
            /\ pos' = pos
      ]_vars

\* C9, reached: a peek has completed after the opcode byte and the cursor
\* stands right behind the opcode byte.
C9_Witness ==
    /\ pc = "next_field"
    /\ opcode_ctx[1].next_field = "ModOpcodeContRm"
    /\ opcode_ctx[1].mnemonic = "Sub"
    /\ pos = 1

\* C10: every context the classifier returns carries the bits its layout
\* needs (ModRegRm: d and w; ModOpcodeContRm: w; Data: w and reg), and so
\* no expect() on d, w or reg in decode_next_op panics.
C10_LayoutBitsPresent ==
    /\ opcode_ctx # None =>
         /\ opcode_ctx[1].next_field = "ModRegRm" =>
                (opcode_ctx[1].d # None /\ opcode_ctx[1].w # None)
         /\ opcode_ctx[1].next_field = "ModOpcodeContRm" => opcode_ctx[1].w # None
         /\ opcode_ctx[1].next_field = "Data" =>
                (opcode_ctx[1].w # None /\ opcode_ctx[1].reg # None)
    /\ result.kind = "Panic" =>
         result.msg \notin {"Need direction set!", "W bit not found!", "Expected w!", "Expected reg!"}

----------------------------------------------------------------------------
(* C11 *)

\* The first bytes the classifier has a pattern for.
Patterned ==
    (\h00..\h05) \cup (\h28..\h2D) \cup (\h38..\h3D) \cup (\h70..\h7F)
    \cup (\h80..\h83) \cup (\h88..\h8B) \cup (\hB0..\hBF) \cup {\hC6, \hC7}
    \cup (\hE0..\hE3)

\* C11: classification is total over the 256 byte values (each of them is
\* the first byte of some input): at an instruction boundary a byte with a
\* pattern yields a descriptor of that byte and decode goes on, any other
\* byte b makes decode return the error InvalidOpcode(b) at once, the cursor
\* resting just after the offending byte and no statement added.
C11_InvalidOpcode ==
    [][(pc = "read_opcode" /\ pos < Len(buf)) =>
        LET b == buf[pos + 1]
        IN  IF b \in Patterned
            THEN /\ result' = Running
                 /\ pc' \in {"peek", "next_field"}
                 /\ opcode_ctx' # None
                 /\ opcode_ctx'[1].first_byte_raw = b
            ELSE /\ result' = ErrResult(<<"InvalidOpcode", b>>)
                 /\ pc' = "done"
                 /\ pos' = pos + 1
                 /\ ops' = ops
                 /\ decoded' = decoded]_vars

\* decode has returned InvalidOpcode(0x40) for a 0x40 met after one
\* statement, with a byte of the buffer left unread.
C11_Witness ==
    /\ pc = "done"
    /\ result = ErrResult(<<"InvalidOpcode", \h40>>)
    /\ Len(ops) = 1
    /\ buf[pos] = \h40
    /\ pos < Len(buf)

----------------------------------------------------------------------------
(* C12 *)

\* C12: when the first byte is in 0x80..0x83 and bits 5-3 of the byte after
\* it are none of 000, 101, 111, decode fails with the typed error
\* UnknownModRmDisambiguation(first, modrm); it neither panics nor goes on
\* with a default mnemonic.
C12_UnknownDisambiguationIsTypedError ==
    [][(/\ pc = "peek"
        /\ opcode_ctx[1].first_byte_raw \in \h80..\h83
        /\ pos < Len(buf)
        /\ (buf[pos + 1] \div 8) % 8 \notin {\b000, \b101, \b111})
       => /\ result'.kind = "Err"
          /\ result'.err = <<"UnknownModRmDisambiguation",
                              opcode_ctx[1].first_byte_raw, buf[pos + 1]>>]_vars

----------------------------------------------------------------------------
(* C13 *)

RECURSIVE BytesOf(_)
\* The bytes of the buffer that the byte ranges in sp cover, in order.
BytesOf(sp) ==
    IF sp = <<>> THEN <<>>
    ELSE BytesOf(SubSeq(sp, 1, Len(sp) - 1))
         \o SubSeq(buf, sp[Len(sp)][1] + 1, sp[Len(sp)][2])

\* C13: decode returns Ok only from the opcode read at an instruction
\* boundary that finds the stream at its end: at that return the cursor is
\* at the buffer length and the buffer is the concatenation of the byte
\* sequences of the returned statements, one non-empty sequence each; a
\* read anywhere else that finds the stream at its end stops decode without
\* success.
C13_OkOnlyAtBoundaryEnd ==
    [][/\ (result'.kind = "Ok" /\ result.kind # "Ok") =>
             /\ pc = "read_opcode"
             /\ opcode_ctx = None
             /\ pos = Len(buf)
             /\ pos' = Len(buf)
             /\ Len(spans') = Len(ops')
             /\ \A i \in DOMAIN spans' : spans'[i][1] < spans'[i][2]
             /\ BytesOf(spans') = buf
       /\ (pc \notin {"read_opcode", "done"} /\ Truncated) =>
             result'.kind \notin {"Ok", "Running"}]_vars

\* decode has returned Ok for a buffer of two two-byte instructions.
C13_Witness ==
    /\ result.kind = "Ok"
    /\ pos = Len(buf)
    /\ spans = <<(<<0, 2>>), (<<2, 4>>)>>
    /\ Len(ops) = 2

----------------------------------------------------------------------------
(* C14 *)

\* C14: in the ModOpcodeContRm layout (first byte 0x80..0x83, s bit 1 and
\* w bit 0 of it) the immediate is one byte when s = 1 and w = 1 and
\* otherwise follows w, so it is two bytes, low byte first, exactly when
\* s = 0 and w = 1; the statement returned has the R/M operand as its
\* destination and the immediate as its source.
C14_ImmediateSize ==
    [][(pc = "read_data" /\ Returns) =>
        LET b == buf[start + 1]
            s == (b \div 2) % 2
            w == b % 2
            size == IF s = 1 /\ w = 1 THEN 1 ELSE IF w = 1 THEN 2 ELSE 1
        IN  /\ b \in \h80..\h83
            /\ (size = 2) <=> (s = 0 /\ w = 1)
            /\ pos' = pos + size
            /\ Returned.dest = dest[1]
            /\ dest[1].kind \in {"EffectiveAddress", "Register"}
            /\ Returned.src = Some(IF size = 2 THEN DataWord(WordAt(pos))
                                   ELSE DataByte(buf[pos + 1]))]_vars

\* add [bx + si], 5 has been returned from 0x83 0x00 0x05 (s = 1, w = 1):
\* the immediate took one byte.
C14_Witness ==
    /\ Len(ops) >= 1
    /\ buf[1] = \h83
    /\ spans[1] = <<0, 3>>
    /\ ops[1].dest.kind = "EffectiveAddress"
    /\ ops[1].src = Some(DataByte(5))

----------------------------------------------------------------------------
(* C15 *)

\* The mnemonics in lower case.
LowerCase ==
    [Mov |-> "mov", Add |-> "add", Sub |-> "sub", Cmp |-> "cmp", Je |-> "je",
     Jl |-> "jl", Jle |-> "jle", Jb |-> "jb", Jbe |-> "jbe", Jp |-> "jp",
     Jo |-> "jo", Js |-> "js", Jne |-> "jne", Jnl |-> "jnl", Jg |-> "jg",
     Jnb |-> "jnb", Jnbe |-> "jnbe", Jnp |-> "jnp", Jno |-> "jno",
     Jns |-> "jns", Loop |-> "loop", Loopz |-> "loopz", Loopnz |-> "loopnz",
     Jcxz |-> "jcxz"]

\* C15: the line of a returned statement is its mnemonic in lower case, one
\* space and the destination's text; with a source operand a comma, a space
\* and the source's text follow, without one nothing follows, so the line
\* is no longer than mnemonic, space and destination.
C15_OperationRendering ==
    [][Returns =>
        LET line == log'[Len(log')]
            head == (LowerCase[Returned.opcode] \o " ") \o OperandToString(Returned.dest)
        IN  /\ Len(log') = Len(log) + 1
            /\ Returned.opcode \in DOMAIN LowerCase
            /\ IF Returned.src # None
               THEN line = (head \o ", ") \o OperandToString(Returned.src[1])
               ELSE /\ line = head
                    /\ Len(line) = Len(LowerCase[Returned.opcode]) + 1
                                    + Len(OperandToString(Returned.dest))]_vars

\* jne -2 has been returned: a statement without a source, and nothing
\* after its destination.
C15_Witness ==
    /\ Len(ops) >= 1
    /\ ops[1].src = None
    /\ log[1] = "jne -2"

----------------------------------------------------------------------------
(* C16 *)

\* C16: the displacement term of a SingleReg or DoubleReg operand depends on
\* the declared displacement length alone, never on the value: length None
\* (mode 00) renders no term, as in [bx] and [bx + si]; length Byte (mode 01)
\* and Word (mode 10) always render " + <value>", a value of 0 as " + 0".
C16_DisplacementTerm ==
    [][(/\ pc = "rm_to_operand"
        /\ dest' # None
        /\ dest'[1].kind = "EffectiveAddress"
        /\ dest'[1].ea.shape \in {"SingleReg", "DoubleReg"}) =>
        LET mode == mod_rm[1] \div 64
            text == OperandToString(dest'[1])
            base == "[" \o BaseText(dest'[1].ea)
            value == IF mode = 1 THEN buf[pos + 1] ELSE WordAt(pos)
        IN  /\ dest'[1].disp.len = (CASE mode = 0 -> "None" [] mode = 1 -> "Byte"
                                       [] mode = 2 -> "Word")
            /\ IF mode = 0
               THEN /\ text = base \o "]"
                    /\ (mod_rm[1] % 8 = 7) => text = "[bx]"
                    /\ (mod_rm[1] % 8 = 0) => text = "[bx + si]"
               ELSE /\ text = ((base \o " + ") \o ToString(value)) \o "]"
                    /\ (value = 0 /\ mod_rm[1] % 8 = 7) => text = "[bx + 0]"]_vars

\* A word displacement of 0 is held and rendered: [bp + di + 0].
C16_Witness ==
    /\ dest # None
    /\ dest[1].kind = "EffectiveAddress"
    /\ dest[1].disp = DisplacementValue("Word", 0)
    /\ OperandToString(dest[1]) = "[bp + di + 0]"

----------------------------------------------------------------------------
(* C17 *)

\* The effective-address shape of each R/M value other than 110.
ShapeOfRm ==
    <<DoubleReg("BX", "SI"), DoubleReg("BX", "DI"), DoubleReg("BP", "SI"),
      DoubleReg("BP", "DI"), SingleReg("SI"), SingleReg("DI"), <<>>, SingleReg("BX")>>

\* C17: in the memory modes (00, 01, 10) the shape of the effective address
\* is fixed by the R/M bits alone, 000 BX+SI, 001 BX+DI, 010 BP+SI,
\* 011 BP+DI, 100 SI, 101 DI, 111 BX, except for R/M 110, which is the direct
\* address exactly in mode 00 and SingleReg(BP) in modes 01 and 10.
C17_ShapeByRm ==
    (rm # None /\ mod_rm[1] \div 64 # 3) =>
        LET mode == mod_rm[1] \div 64
            bits == mod_rm[1] % 8
        IN  /\ rm[1].kind = "EffectiveAddressCalculation"
            /\ IF bits # 6 THEN rm[1].ea = ShapeOfRm[bits + 1]
               ELSE IF mode = 0 THEN rm[1].ea = DirectAddress
               ELSE rm[1].ea = SingleReg("BP")

\* ModRM 01 000 110 has been parsed: R/M 110 outside mode 00 is SingleReg(BP).
C17_Witness ==
    /\ rm # None
    /\ mod_rm[1] = \b01000110
    /\ rm[1].ea = SingleReg("BP")

----------------------------------------------------------------------------
(* C18 *)

RECURSIVE Joined(_)
\* The lines, a newline between each two.
Joined(lines) ==
    IF Len(lines) = 0 THEN ""
    ELSE IF Len(lines) = 1 THEN lines[1]
    ELSE (Joined(SubSeq(lines, 1, Len(lines) - 1)) \o "\n") \o lines[Len(lines)]

RECURSIVE Terminated(_)
\* The lines, a newline after each.
Terminated(lines) ==
    IF Len(lines) = 0 THEN ""
    ELSE (Terminated(SubSeq(lines, 1, Len(lines) - 1)) \o lines[Len(lines)]) \o "\n"

\* C18 as stated: the text decode returns for n instructions is the header
\* line bits 16 followed by the n instruction lines in order and nothing
\* else, the last line ended by a newline or not.
C18_HeaderThenLines ==
    result.kind = "Ok" =>
        \/ result.text = "bits 16\n" \o Joined(StatementLines)
        \/ result.text = "bits 16\n" \o Terminated(StatementLines)

\* C18, amended: the text decode returns for n instructions is the header
\* line bits 16 and, when n > 0, an empty line and then the n instruction
\* lines in the order of the buffer, the i-th the rendering of the i-th
\* instruction, a newline between each two and none after the last.
C18_HeaderBlankThenLines ==
    result.kind = "Ok" =>
        /\ Len(ops) = Len(spans)
        /\ result.text = IF Len(ops) = 0 THEN "bits 16\n"
                         ELSE "bits 16\n\n" \o Joined(StatementLines)

\* decode has returned the text of two instructions.
C18_Witness ==
    /\ buf = <<\h04, \h00, \h04, \h04>>
    /\ result = OkResult("bits 16\n\nadd al, 0\nadd al, 4")

----------------------------------------------------------------------------
(* C19 *)

\* C19: for a first byte in 0x70..0x7F or 0xE0..0xE3 decoding consumes
\* exactly one byte v after the opcode and returns a statement whose only
\* operand is the signed jump v (v - 256 when v >= 128), with no source
\* operand, rendered as the mnemonic, a space and the signed decimal.
C19_ShortJump ==
    [][(/\ pc = "next_field"
        /\ opcode_ctx[1].first_byte_raw \in (\h70..\h7F) \cup (\hE0..\hE3)
        /\ pos < Len(buf)) =>
        LET v == buf[pos + 1]
            j == IF v >= 128 THEN v - 256 ELSE v
        IN  /\ opcode_ctx[1].next_field = "IpInc8"
            /\ pos = start + 1
            /\ pos' = pos + 1
            /\ Returns
            /\ Returned.dest = SignedJump(j)
            /\ Returned.src = None
            /\ log'[Len(log')] = (LowerCase[Returned.opcode] \o " ") \o ToString(j)]_vars

\* loop -128 has been returned from 0xE2 0x80.
C19_Witness ==
    /\ Len(ops) >= 1
    /\ buf[1] = \hE2
    /\ buf[2] = \h80
    /\ ops[1] = Operation("Loop", SignedJump(-128), None)
    /\ log[1] = "loop -128"

----------------------------------------------------------------------------
(* C20 *)

\* The mnemonic that bits 5-3 of a ModRM byte select after 0x80..0x83.
SubOpcode(modrm) ==
    CASE (modrm \div 8) % 8 = \b000 -> "Add"
      [] (modrm \div 8) % 8 = \b101 -> "Sub"
      [] (modrm \div 8) % 8 = \b111 -> "Cmp"

\* A ModRM byte with its bits 5-3 cleared.
WithoutBits53(modrm) == modrm - ((modrm \div 8) % 8) * 8

\* C20: a NeedsNextByte classification is followed by a peek that leaves the
\* cursor where it was and sets the mnemonic from bits 5-3 of the byte
\* behind it; the next read consumes that same byte as the ModRM byte, the
\* mnemonic already set; the destination operand is the one mode and R/M
\* bits give (in register mode the register numbered by the R/M bits) and
\* is the same whatever bits 5-3 are.
C20_PeekThenModRm ==
    [][/\ (pc = "read_opcode" /\ opcode_ctx' # None
             /\ opcode_ctx'[1].mnemonic = "NeedsNextByte") =>
             pc' = "peek" /\ pos' = start' + 1
       /\ (pc = "peek" /\ pos < Len(buf) /\ result' = Running) =>
             /\ pos' = pos
             /\ mod_rm' = None
             /\ pc' = "next_field"
             /\ opcode_ctx'[1].mnemonic = SubOpcode(buf[pos + 1])
       /\ (pc = "next_field" /\ opcode_ctx[1].next_field = "ModOpcodeContRm"
             /\ pos < Len(buf)) =>
             /\ pos = start + 1
             /\ opcode_ctx[1].mnemonic = SubOpcode(buf[pos + 1])
             /\ mod_rm' = Some(buf[pos + 1])
             /\ pos' = pos + 1
             /\ opcode_ctx' = opcode_ctx
       /\ (pc = "rm_to_operand" /\ opcode_ctx[1].next_field = "ModOpcodeContRm"
             /\ dest' # None) =>
             LET w == opcode_ctx[1].first_byte_raw % 2 = 1
                 other == parse_mod_rm(WithoutBits53(mod_rm[1]), w)
             IN  /\ IF mod_rm[1] \div 64 = 3
                    THEN dest'[1] = OperandRegister(RegisterTable(mod_rm[1] % 8, w))
                    ELSE dest'[1].kind = "EffectiveAddress"
                 /\ dest'[1] = rm_to_operand(buf, pos, other.rm).val]_vars

\* cmp cx, <immediate> is being decoded from 0x83 0xF9: the destination is
\* the register of the R/M bits 001, not the one bits 5-3 (111) would name.
C20_Witness ==
    /\ pc = "read_data"
    /\ buf[1] = \h83
    /\ mod_rm = Some(\b11111001)
    /\ opcode_ctx[1].mnemonic = "Cmp"
    /\ dest = Some(OperandRegister("CX"))

----------------------------------------------------------------------------
(* C21 *)

\* C21: InvalidMode and InvalidRegister are unreachable: for the ModRM byte
\* a step reads (every byte value occurs as one) and both width flags,
\* Mode::try_from, Register::try_from_with_w, parse_mod_rm and
\* parse_mod_reg_rm return Ok, and the step that parses the byte neither
\* returns an error nor panics.
C21_ParseNeverFails ==
    [][(/\ pc = "next_field"
        /\ opcode_ctx[1].next_field \in {"ModRegRm", "ModOpcodeContRm"}
        /\ pos < Len(buf)) =>
        LET v == buf[pos + 1]
        IN  /\ Mode_try_from(v).ok
            /\ \A w \in BOOLEAN :
                   /\ try_from_with_w(v, w).ok
                   /\ try_from_with_w(v \div 8, w).ok
                   /\ parse_mod_rm(v, w).ok
                   /\ parse_mod_reg_rm(v, w).ok
            /\ result' = Running
            /\ pc' = "rm_to_operand"
            /\ mod_rm' = Some(v)
            /\ rm' # None]_vars

\* The ModRM byte 0xFF (mode 11, every field at its largest) has been
\* parsed after a byte-width opcode.
C21_Witness ==
    /\ pc = "rm_to_operand"
    /\ buf[1] = \h88
    /\ mod_rm = Some(\hFF)
    /\ rm = Some([kind |-> "Register", reg |-> "BH"])
    /\ result = Running

----------------------------------------------------------------------------
(* C22 *)

\* The displacement length the mode and R/M bits of a ModRM byte declare.
DispBytes(modrm) ==
    CASE modrm \div 64 = 1 -> 1
      [] modrm \div 64 = 2 -> 2
      [] modrm \div 64 = 0 /\ modrm % 8 = 6 -> 2
      [] OTHER -> 0

\* The value of the n bytes of the buffer after position p, low byte first
\* (n from 0 to 2).
ValueAt(p, n) ==
    IF n = 0 THEN 0 ELSE IF n = 1 THEN buf[p + 1] ELSE WordAt(p)

\* C22: in the ModOpcodeContRm layout with a memory-mode R/M operand the
\* bytes after the ModRM byte are consumed displacement first, immediate
\* second: the displacement is read while no immediate byte has been, and
\* of the statement returned the L bytes right after the ModRM byte are the
\* displacement and the M bytes after those the immediate.
C22_DisplacementBeforeImmediate ==
    [][/\ (/\ pc = "rm_to_operand"
            /\ opcode_ctx[1].next_field = "ModOpcodeContRm"
            /\ mod_rm[1] \div 64 # 3
            /\ dest' # None) =>
             /\ pos = start + 2
             /\ pos' = pos + DispBytes(mod_rm[1])
             /\ pc' = "read_data"
             /\ dest'[1].disp.v = ValueAt(start + 2, DispBytes(mod_rm[1]))
       /\ (pc = "read_data" /\ mod_rm[1] \div 64 # 3 /\ Returns) =>
             LET L == DispBytes(mod_rm[1])
                 b == buf[start + 1]
                 M == IF b % 2 = 1 /\ (b \div 2) % 2 = 0 THEN 2 ELSE 1
             IN  /\ buf[start + 2] = mod_rm[1]
                 /\ pos = start + 2 + L
                 /\ pos' = start + 2 + L + M
                 /\ Returned.dest.kind = "EffectiveAddress"
                 /\ Returned.dest.disp.v = ValueAt(start + 2, L)
                 /\ Returned.src[1].v = ValueAt(start + 2 + L, M)]_vars

\* add [bx + si + 4660], 33023 has been returned from 0x81 0x80 0x34 0x12
\* 0xFF 0x80: a word displacement, then a word immediate.
C22_Witness ==
    /\ Len(ops) = 1
    /\ buf = <<\h81, \h80, \h34, \h12, \hFF, \h80>>
    /\ ops[1].dest.disp = DisplacementValue("Word", 4660)
    /\ ops[1].src = Some(DataWord(33023))
    /\ spans[1] = <<0, 6>>

----------------------------------------------------------------------------
(* C23 *)

\* The length of the instruction that starts with the opcode byte b and,
\* in the ModRM layouts, has the ModRM byte m: 2 for a short jump; 2 or 3 by
\* w for an immediate to a register (w is bit 3 of 0xB0..0xBF, bit 0 of the
\* accumulator forms); 2 + D for register/memory with register; 2 + D + I
\* for 0x80..0x83.
LengthOf(b, m) ==
    CASE b \in (\h70..\h7F) \cup (\hE0..\hE3) -> 2
      [] b \in \hB0..\hBF -> IF (b \div 8) % 2 = 1 THEN 3 ELSE 2
      [] b \in {\h04, \h05, \h2C, \h2D, \h3C, \h3D} -> IF b % 2 = 1 THEN 3 ELSE 2
      [] b \in \h80..\h83 ->
           2 + DispBytes(m) + (IF b % 2 = 1 /\ (b \div 2) % 2 = 0 THEN 2 ELSE 1)
      [] OTHER -> 2 + DispBytes(m)

\* C23: the number of bytes a returned statement has consumed is a function
\* of its opcode byte and, in the ModRM layouts, its ModRM byte alone:
\* each statement's byte range has the length LengthOf gives for the first
\* two bytes of the range, whatever the displacement and immediate values
\* are; the peek adds nothing.
C23_LengthByOpcodeAndModRm ==
    /\ Len(spans) = Len(ops)
    /\ \A i \in DOMAIN spans :
           LET from == spans[i][1]
           IN  /\ from + 2 <= Len(buf)
               /\ spans[i][2] - from = LengthOf(buf[from + 1], buf[from + 2])

\* A statement of five bytes has been returned from 0x83 with a mode 10
\* ModRM byte: 2, a word displacement and a one-byte immediate.
C23_Witness ==
    /\ Len(spans) = 1
    /\ buf[1] = \h83
    /\ buf[2] = \b10000000
    /\ spans[1] = <<0, 5>>

----------------------------------------------------------------------------
(* C24 *)

\* C24: after a first byte in 0x80..0x83 the mnemonic is fixed by bits 5-3
\* of the following byte alone: 000 gives Add, 101 Sub, 111 Cmp, and every
\* other first byte of the range (every s and w) with every other mode and
\* R/M around the same bits 5-3 gives the same answer.
C24_MnemonicByBits53 ==
    [][(pc = "peek" /\ pos < Len(buf)) =>
        LET f == opcode_ctx[1].first_byte_raw
            m == buf[pos + 1]
            bits == (m \div 8) % 8
        IN  /\ f \in \h80..\h83
            /\ (bits = \b000) => (result' = Running /\ opcode_ctx'[1].mnemonic = "Add")
            /\ (bits = \b101) => (result' = Running /\ opcode_ctx'[1].mnemonic = "Sub")
            /\ (bits = \b111) => (result' = Running /\ opcode_ctx'[1].mnemonic = "Cmp")
            /\ \A g \in \h80..\h83, mode \in 0..3, r \in 0..7 :
                   with_mod_rm(g, mode * 64 + bits * 8 + r) = with_mod_rm(f, m)]_vars

\* Sub has been set from 0x80 followed by 00 101 110.
C24_Witness ==
    /\ pc = "next_field"
    /\ buf[1] = \h80
    /\ buf[2] = \b00101110
    /\ pos = 1
    /\ opcode_ctx[1].mnemonic = "Sub"

----------------------------------------------------------------------------
(* C25 *)

\* C25: for the immediate-to-accumulator opcodes (add 0x04/0x05, sub
\* 0x2C/0x2D, cmp 0x3C/0x3D) the destination is AL when w (bit 0) is 0 and
\* AX when it is 1, not the register the low three opcode bits would name,
\* and the source is a one-byte immediate when w = 0 and a two-byte
\* immediate, low byte first, when w = 1.
C25_AccumulatorImmediate ==
    [][(/\ pc = "next_field"
        /\ opcode_ctx[1].first_byte_raw \in {\h04, \h05, \h2C, \h2D, \h3C, \h3D}
        /\ Returns) =>
        LET b == opcode_ctx[1].first_byte_raw
            w == b % 2 = 1
        IN  /\ Returned.opcode = (CASE b \in {\h04, \h05} -> "Add"
                                     [] b \in {\h2C, \h2D} -> "Sub"
                                     [] b \in {\h3C, \h3D} -> "Cmp")
            /\ Returned.dest = OperandRegister(IF w THEN "AX" ELSE "AL")
            /\ Returned.dest # OperandRegister(RegisterTable(b % 8, w))
            /\ Returned.src = Some(IF w THEN DataWord(buf[pos + 1] + 256 * buf[pos + 2])
                                   ELSE DataByte(buf[pos + 1]))
            /\ pos' = pos + (IF w THEN 2 ELSE 1)]_vars

\* sub ax, 13330 has been returned from 0x2D 0x12 0x34.
C25_Witness ==
    /\ Len(ops) >= 1
    /\ buf[1] = \h2D
    /\ ops[1] = Operation("Sub", OperandRegister("AX"), Some(DataWord(13330)))
    /\ log[1] = "sub ax, 13330"

----------------------------------------------------------------------------
(* C26 *)

\* The short-jump and loop opcode bytes.
JumpBytes == (\h70..\h7F) \cup (\hE0..\hE3)

----------------------------------------------------------------------------
(* C27 *)

\* C27: the one-byte immediate read under s = 1, w = 1 (first byte 0x83) is
\* not sign-extended: the source operand is DataByte(v) with v the raw byte
\* and renders as the unsigned decimal 0..255 of it, 0xFF as 255.
C27_NoSignExtension ==
    [][(pc = "read_data" /\ buf[start + 1] = \h83 /\ Returns) =>
        LET v == buf[pos + 1]
            line == log'[Len(log')]
            head == (LowerCase[Returned.opcode] \o " ") \o OperandToString(Returned.dest)
        IN  /\ pos' = pos + 1
            /\ Returned.src = Some(DataByte(v))
            /\ v \in 0..255
            /\ OperandToString(Returned.src[1]) = ToString(v)
            /\ line = (head \o ", ") \o ToString(v)
            /\ (v = \hFF) => OperandToString(Returned.src[1]) = "255"]_vars

\* add [bx + si + 4660], 255 has been returned from 0x83 0x80 0x34 0x12
\* 0xFF.
C27_Witness ==
    /\ Len(ops) >= 1
    /\ buf[1] = \h83
    /\ ops[1].src = Some(DataByte(\hFF))
    /\ log[1] = "add [bx + si + 4660], 255"

----------------------------------------------------------------------------
(* C28 *)

\* C28: the patterns of the classifier are pairwise disjoint: the byte
\* read at an instruction boundary (every byte value occurs as one) matches
\* at most one arm of OpcodeContext::try_from, exactly one when it is
\* classified, so that whichever matching arm is tried first the descriptor
\* is the same.
C28_ArmsDisjoint ==
    [][(pc = "read_opcode" /\ pos < Len(buf)) =>
        LET b == buf[pos + 1]
            matching == {i \in DOMAIN Arms : b \in Arms[i].lo..Arms[i].hi}
        IN  /\ Cardinality(matching) <= 1
            /\ Cardinality(MatchingArms(b)) <= 1
            /\ (opcode_ctx' # None) <=> (Cardinality(matching) = 1)
            /\ \A i \in matching : opcode_ctx' = Some(BuildArm(Arms[i].arm, b))]_vars

\* The byte 0xB8 has been classified by the one arm it matches.
C28_Witness ==
    /\ pc = "next_field"
    /\ pos = 1
    /\ opcode_ctx # None
    /\ opcode_ctx[1].first_byte_raw = \hB8
    /\ opcode_ctx[1].reg = Some("AX")
    /\ Cardinality(MatchingArms(\hB8)) = 1

----------------------------------------------------------------------------
(* C29 *)

\* How far decode_next_op has got in the current call.
Stage ==
    CASE pc = "read_opcode" -> 0
      [] pc = "peek" -> 1
      [] pc = "next_field" -> 2
      [] pc = "rm_to_operand" -> 3
      [] pc = "assemble" -> 4
      [] pc = "read_data" -> 4
      [] pc = "done" -> 5

\* The progress of decode: the statements returned, then the stage of the
\* current call; the largest value once decode has ended.
Progress ==
    IF pc = "done" THEN 5 * (Len(buf) \div 2) + 5 ELSE 5 * Len(ops) + Stage

\* C29: decode terminates on every finite buffer: each call of
\* decode_next_op that returns a statement has advanced the cursor by at
\* least 2 and at most 6 bytes, so the loop has run at most len/2 times
\* (twice the number of statements never exceeds the cursor position, which
\* never exceeds the buffer length), and every step of decode makes
\* progress towards a bound fixed by the buffer length, which it reaches
\* when it returns or aborts.
C29_Terminates ==
    [][/\ Returns => /\ pos' - start >= 2
                     /\ pos' - start <= 6
                     /\ spans'[Len(spans')] = <<start, pos'>>
       /\ 2 * Len(ops') <= pos'
       /\ pos' <= Len(buf)
       /\ Progress' > Progress
       /\ Progress' <= 5 * (Len(buf) \div 2) + 5]_vars

\* decode has ended after a statement of six bytes.
C29_Witness ==
    /\ pc = "done"
    /\ Len(ops) = 1
    /\ spans[1] = <<0, 6>>
    /\ pos = Len(buf)
    /\ result.kind = "Ok"

----------------------------------------------------------------------------
(* C30 *)

\* C30: no buffer drives the decoder into a todo! branch: every descriptor
\* the classifier has returned has one of the four handled layouts
\* ModRegRm, ModOpcodeContRm, Data, IpInc8 (never Addr or None), the
\* NeedsNextByte mnemonic is held only until the peek replaces it, and every
\* statement returned has a mnemonic other than NeedsNextByte, one that the
\* rendering has an arm for.
C30_NoTodoBranch ==
    /\ (opcode_ctx # None) =>
          /\ opcode_ctx[1].next_field \in {"ModRegRm", "ModOpcodeContRm", "Data", "IpInc8"}
          /\ (opcode_ctx[1].mnemonic = "NeedsNextByte") =>
                (pc = "peek" \/ (pc = "done" /\ result.kind = "Panic"))
    /\ \A i \in DOMAIN ops :
          /\ ops[i].opcode # "NeedsNextByte"
          /\ ops[i].opcode \in DOMAIN LowerCase

\* cmp cl, 52 has been returned from 0x80 0xF9 0x34, a first byte the
\* classifier gives the NeedsNextByte mnemonic.
C30_Witness ==
    /\ Len(ops) >= 1
    /\ buf[1] = \h80
    /\ OpcodeContext_try_from(buf[1]).ctx.mnemonic = "NeedsNextByte"
    /\ ops[1].opcode = "Cmp"
    /\ log[1] = "cmp cl, 52"

====
